---- MODULE Spec2Model ----
(***************************************************************************)
(* Model of otc.py: a cipher that encodes every plaintext byte as the      *)
(* position of an occurrence of that byte in a map file, and decodes by    *)
(* looking the position up again.                                          *)
(*                                                                         *)
(* Byte values are 0 .. NumByteValues-1.  The program works on the 256     *)
(* values of a byte (verify() compares the number of keys with 256); the   *)
(* model scales the alphabet down and keeps everything else as in the      *)
(* code.  Positions are zero-based as in the program, so the byte at       *)
(* position p of the map is Map[p + 1].                                    *)
(***************************************************************************)
EXTENDS Integers, Sequences, FiniteSets, TLC

\* ---------------------------------------------------------------- bounds
NumByteValues == 2
MaxMapLen == 3
MaxPlainLen == 3
MaxCipherLen == 2

VARIABLES
    Map,        \* content of the map file (args.map), a sequence of bytes
    op,         \* "encrypt" | "decrypt" | "find": which entry point runs
    strict,     \* args.strict
    inMemory,   \* encrypt run: ~(map_size > free_memory)
    plain,      \* encrypt run: content of input_fp
    inPos,      \* encrypt run: number of plaintext bytes consumed
    outText,    \* encrypt run: lines written to output_fp
    map_obj,    \* EncryptMap.map: byte -> TrackedList [index, list]
    shuffles,   \* number of times EncryptMap.shuffle ran
    map_index,  \* streaming encrypt: the variable map_index
    fpPos,      \* position of the stream map_fp
    printed,    \* messages printed by the run
    pc,         \* encrypt run: "Idle" | "MapLoaded" | "Processing" | "Done" | "Failed"
    err,        \* encrypt run: error that ended the run, "none" if none
    dInMemory,  \* decrypt run: ~(map_size > free_memory)
    cipherIn,   \* decrypt run: lines of input_fp
    dPos,       \* decrypt run: number of lines consumed
    outBytes,   \* decrypt run: bytes written to output_fp
    dpc,        \* decrypt run: "Idle" | "MapLoaded" | "Processing" | "Done" | "Failed"
    derr,       \* decrypt run: error that ended the run, "none" if none
    target,     \* find_next_byte call: target_byte
    fnb         \* find_next_byte call: its outcome and the reads it made

vars == <<Map, op, strict, inMemory, plain, inPos, outText, map_obj, shuffles,
          map_index, fpPos, printed, pc, err, dInMemory, cipherIn, dPos,
          outBytes, dpc, derr, target, fnb>>

\* ------------------------------------------------------- data and helpers
Byte == 0 .. (NumByteValues - 1)

SeqsUpTo(S, n) == UNION {[1 .. k -> S] : k \in 0 .. n}

Range(s) == {s[i] : i \in DOMAIN s}

\* Number of occurrences of byte v in the sequence s.
Count(v, s) == Cardinality({i \in DOMAIN s : s[i] = v})

\* ------------------------------------------- ciphertext lines (text format)
Digits == <<"0", "1", "2", "3", "4", "5", "6", "7", "8", "9">>

DigitVal(c) == CHOOSE d \in 0 .. 9 : Digits[d + 1] = c

RECURSIVE FormatNat(_)
FormatNat(n) ==
    IF n < 10 THEN <<Digits[n + 1]>>
    ELSE FormatNat(n \div 10) \o <<Digits[(n % 10) + 1]>>

\* f"{index:d}\n"
FormatLine(index) ==
    (IF index < 0 THEN <<"-">> \o FormatNat(0 - index) ELSE FormatNat(index))
        \o <<"\n">>

RECURSIVE ParseNat(_)
ParseNat(ds) ==
    IF Len(ds) = 0 THEN 0
    ELSE 10 * ParseNat(SubSeq(ds, 1, Len(ds) - 1)) + DigitVal(ds[Len(ds)])

\* int(line): the trailing newline is stripped, a leading sign is honoured.
ParseInt(line) ==
    LET body == IF Len(line) > 0 /\ line[Len(line)] = "\n"
                THEN SubSeq(line, 1, Len(line) - 1) ELSE line
    IN  IF Len(body) > 0 /\ body[1] = "-"
        THEN 0 - ParseNat(Tail(body))
        ELSE ParseNat(body)

\* ------------------------------------------------------------ TrackedList
\* TrackedList.__init__
TrackedList(first) == [index |-> 0, list |-> <<first>>]

\* An append that replaces the list by the new element.
TrackedAppend_Replace(tl, elt) == [tl EXCEPT !.list = <<elt>>]

\* TrackedList.append
TrackedAppend(tl, elt) == [tl EXCEPT !.list = Append(@, elt)]

\* A reset that leaves the cursor on the second entry.
TrackedReset_Second(tl) == [tl EXCEPT !.index = 1]

\* TrackedList.reset
TrackedReset(tl) == [tl EXCEPT !.index = 0]

\* TrackedList.__next__: StopIteration when the cursor is past the end,
\* otherwise the entry under the cursor, and the cursor advances.
TrackedNext(tl) ==
    IF tl.index > Len(tl.list) - 1
    THEN [stop |-> TRUE, value |-> 0, tl |-> tl]
    ELSE [stop |-> FALSE, value |-> tl.list[tl.index + 1],
          tl |-> [tl EXCEPT !.index = @ + 1]]

\* ------------------------------------------------------------- EncryptMap
\* The scan loop of EncryptMap.__init__: content[index+1 ..] is still to be
\* read, m is self.map so far.
RECURSIVE ScanMap(_, _, _)
ScanMap(content, index, m) ==
    IF index >= Len(content) THEN m
    ELSE LET byte == content[index + 1]
         IN  IF byte \in DOMAIN m
             THEN ScanMap(content, index + 1,
                          [m EXCEPT ![byte] = TrackedAppend(@, index)])
             ELSE ScanMap(content, index + 1,
                          [b \in (DOMAIN m) \cup {byte} |->
                              IF b = byte THEN TrackedList(index) ELSE m[b]])

EmptyMap == [b \in {} |-> TrackedList(0)]

\* A verify that rejects only a map with no key at all.
VerifyRaises_OnlyEmpty(m) == Cardinality(DOMAIN m) = 0

\* EncryptMap.verify: TRUE when it raises MapError("Gaps in map file.").
VerifyRaises(m) == Cardinality(DOMAIN m) # NumByteValues

\* A shuffle that draws every entry anew from the list, repeats allowed.
ShuffledLists_WithRepeats(s) == [1 .. Len(s) -> Range(s)]

\* random.shuffle of one list: every reordering of it.
ShuffledLists(s) ==
    LET n == Len(s)
        perms == {p \in [1 .. n -> 1 .. n] : \A i, j \in 1 .. n : p[i] = p[j] => i = j}
    IN  {[i \in 1 .. n |-> s[p[i]]] : p \in perms}

\* EncryptMap.shuffle: the maps it can leave behind.
Shuffle(m) ==
    LET lists == UNION {ShuffledLists(m[key].list) : key \in DOMAIN m}
        picks == {pick \in [DOMAIN m -> lists] :
                     \A key \in DOMAIN m : pick[key] \in ShuffledLists(m[key].list)}
    IN  {[key \in DOMAIN m |-> [m[key] EXCEPT !.list = pick[key]]] : pick \in picks}

\* An encode that resets the cursor whatever self.strict says.
Encode_IgnoreStrict(m, isStrict, byte) ==
    IF byte \notin DOMAIN m
    THEN [raised |-> TRUE, error |-> "KeyError", index |-> 0, map |-> m]
    ELSE LET first == TrackedNext(m[byte])
             again == TrackedNext(TrackedReset(m[byte]))
         IN  IF ~first.stop
             THEN [raised |-> FALSE, error |-> "none", index |-> first.value,
                   map |-> [m EXCEPT ![byte] = first.tl]]
             ELSE [raised |-> FALSE, error |-> "none", index |-> again.value,
                   map |-> [m EXCEPT ![byte] = again.tl]]

\* EncryptMap.encode: the outcome [raised, error, index, map].
Encode(m, isStrict, byte) ==
    IF byte \notin DOMAIN m
    THEN [raised |-> TRUE, error |-> "KeyError", index |-> 0, map |-> m]
    ELSE LET first == TrackedNext(m[byte])
         IN  IF ~first.stop
             THEN [raised |-> FALSE, error |-> "none", index |-> first.value,
                   map |-> [m EXCEPT ![byte] = first.tl]]
             ELSE IF isStrict
                  THEN [raised |-> TRUE, error |-> "MapTooSmall", index |-> 0,
                        map |-> m]
                  ELSE LET again == TrackedNext(TrackedReset(m[byte]))
                       IN  [raised |-> FALSE, error |-> "none",
                            index |-> again.value,
                            map |-> [m EXCEPT ![byte] = again.tl]]

\* --------------------------------------------------------- find_next_byte
\* A stream over content: its position, and how often each position and the
\* end of the stream were read (reads[p + 1] counts the reads of position p).
Stream(content, pos) ==
    [pos |-> pos, reads |-> [i \in 1 .. Len(content) |-> 0], eofs |-> 0]

\* fp.read(1): one byte and the stream after it, or no byte at the end.
Read1(content, fp) ==
    IF fp.pos < Len(content)
    THEN [data |-> <<content[fp.pos + 1]>>,
          fp |-> [fp EXCEPT !.pos = @ + 1, !.reads[fp.pos + 1] = @ + 1]]
    ELSE [data |-> <<>>, fp |-> [fp EXCEPT !.eofs = @ + 1]]

\* fp.seek(pos)
Seek(fp, pos) == [fp EXCEPT !.pos = pos]

\* The first while loop of find_next_byte.
RECURSIVE ScanForward(_, _, _, _, _)
ScanForward(content, fp, current_byte, target_byte, new_index) ==
    IF Len(current_byte) = 1 /\ current_byte # target_byte
    THEN LET r == Read1(content, fp)
         IN  ScanForward(content, r.fp, r.data, target_byte, new_index + 1)
    ELSE [fp |-> fp, current_byte |-> current_byte, new_index |-> new_index]

\* A second loop that forgets to stop at index.
RECURSIVE ScanWrapped_NoLimit(_, _, _, _, _, _)
ScanWrapped_NoLimit(content, fp, current_byte, target_byte, new_index, index) ==
    IF Len(current_byte) = 1 /\ current_byte # target_byte
    THEN LET r == Read1(content, fp)
         IN  ScanWrapped_NoLimit(content, r.fp, r.data, target_byte,
                                 new_index + 1, index)
    ELSE [fp |-> fp, current_byte |-> current_byte, new_index |-> new_index]

\* The second while loop of find_next_byte (after the wrap to position 0).
RECURSIVE ScanWrapped(_, _, _, _, _, _)
ScanWrapped(content, fp, current_byte, target_byte, new_index, index) ==
    IF Len(current_byte) = 1 /\ new_index < index /\ current_byte # target_byte
    THEN LET r == Read1(content, fp)
         IN  ScanWrapped(content, r.fp, r.data, target_byte, new_index + 1, index)
    ELSE [fp |-> fp, current_byte |-> current_byte, new_index |-> new_index]

\* EncryptMap.find_next_byte(fp, target_byte, index) on a stream over content:
\* [raised, index (the value returned), fp (the stream afterwards)].
FindNextByte(content, fp, target_byte, index) ==
    LET r0 == Read1(content, fp)
        l1 == ScanForward(content, r0.fp, r0.data, target_byte, index)
    IN  IF l1.current_byte = target_byte
        THEN [raised |-> FALSE, index |-> l1.new_index, fp |-> l1.fp]
        ELSE LET r1 == Read1(content, Seek(l1.fp, 0))
                 l2 == ScanWrapped(content, r1.fp, r1.data, target_byte, 0, index)
             IN  IF l2.current_byte = target_byte
                 THEN [raised |-> FALSE, index |-> l2.new_index, fp |-> l2.fp]
                 ELSE [raised |-> TRUE, index |-> 0, fp |-> l2.fp]

\* The record kept of a find_next_byte call.
CallRecord(r) ==
    [called |-> TRUE, raised |-> r.raised, index |-> r.index, pos |-> r.fp.pos,
     reads |-> r.fp.reads, eofs |-> r.fp.eofs]

NoCall ==
    [called |-> FALSE, raised |-> FALSE, index |-> 0, pos |-> 0,
     reads |-> <<>>, eofs |-> 0]

\* ----------------------------------------------------------------- decode
\* A bound of a Python slice, clamped to 0 .. n (negative counts from the end).
SliceBound(i, n) ==
    IF i < 0 THEN (IF i + n < 0 THEN 0 ELSE i + n)
    ELSE IF i > n THEN n ELSE i

\* A slice taken one position too far: map_bytes[index + 1 : index + 2].
SliceOne_OffByOne(map_bytes, index) ==
    LET lo == SliceBound(index + 1, Len(map_bytes))
        hi == SliceBound(index + 2, Len(map_bytes))
    IN  IF lo >= hi THEN <<>> ELSE SubSeq(map_bytes, lo + 1, hi)

\* map_bytes[index : index + 1]
SliceOne(map_bytes, index) ==
    LET lo == SliceBound(index, Len(map_bytes))
        hi == SliceBound(index + 1, Len(map_bytes))
    IN  IF lo >= hi THEN <<>> ELSE SubSeq(map_bytes, lo + 1, hi)

\* map_fp.seek(position); map_fp.read(1): a negative position makes seek raise.
SeekRead(content, position) ==
    IF position < 0
    THEN [raised |-> TRUE, data |-> <<>>, pos |-> 0]
    ELSE LET r == Read1(content, Seek(Stream(content, 0), position))
         IN  [raised |-> FALSE, data |-> r.data, pos |-> r.fp.pos]

\* ------------------------------------------------------------------- runs
WarnStrict == "WARNING: Map is too large to enforce --strict."
ErrTooSmall == "ERROR: Map file is too small to use with --strict."

\* Positions a ciphertext line of the decrypt input may hold: those of the
\* map, and some on either side of it.
CipherPositions == (0 - 2) .. Len(Map)

InitEncrypt ==
    /\ op = "encrypt"
    /\ strict \in BOOLEAN
    /\ plain \in SeqsUpTo(Byte, MaxPlainLen)
    /\ inMemory \in (IF Len(Map) = 0 THEN {TRUE} ELSE BOOLEAN)
    /\ pc = "MapLoaded"
    /\ dInMemory = TRUE
    /\ cipherIn = <<>>
    /\ dpc = "Idle"

InitDecrypt ==
    /\ op = "decrypt"
    /\ strict = FALSE
    /\ plain = <<>>
    /\ inMemory = TRUE
    /\ pc = "Idle"
    /\ dInMemory \in (IF Len(Map) = 0 THEN {TRUE} ELSE BOOLEAN)
    /\ cipherIn \in SeqsUpTo({FormatLine(p) : p \in CipherPositions}, MaxCipherLen)
    /\ dpc = "MapLoaded"

Init ==
    /\ Map \in SeqsUpTo(Byte, MaxMapLen)
    /\ (InitEncrypt \/ InitDecrypt)
    /\ inPos = 0
    /\ outText = <<>>
    /\ map_obj = EmptyMap
    /\ shuffles = 0
    /\ map_index = 0
    /\ fpPos = 0
    /\ printed = <<>>
    /\ err = "none"
    /\ dPos = 0
    /\ outBytes = <<>>
    /\ derr = "none"
    /\ target = 0
    /\ fnb = NoCall

decryptVars == <<dInMemory, cipherIn, dPos, outBytes, dpc, derr>>
encryptArgs == <<Map, op, strict, inMemory, plain>>

\* map_obj = EncryptMap(map_fp, args.strict): scan, verify, shuffle.
NewEncryptMap ==
    /\ pc = "MapLoaded" /\ op = "encrypt" /\ inMemory
    /\ LET scanned == ScanMap(Map, 0, EmptyMap)
       IN  IF VerifyRaises(scanned)
           THEN /\ pc' = "Failed"
                /\ err' = "Gaps"
                /\ UNCHANGED <<map_obj, shuffles>>
           ELSE /\ map_obj' \in Shuffle(scanned)
                /\ shuffles' = shuffles + 1
                /\ pc' = "Processing"
                /\ err' = err
    /\ fpPos' = Len(Map)
    /\ UNCHANGED <<encryptArgs, inPos, outText, map_index, printed, target, fnb>>
    /\ UNCHANGED decryptVars

\* One turn of the in-memory encrypt loop.
EncodeStep ==
    /\ pc = "Processing" /\ op = "encrypt" /\ inMemory
    /\ inPos < Len(plain)
    /\ LET r == Encode(map_obj, strict, plain[inPos + 1])
       IN  IF r.raised
           THEN /\ pc' = "Failed"
                /\ err' = r.error
                /\ printed' = IF r.error = "KeyError" THEN printed
                              ELSE Append(printed, ErrTooSmall)
                /\ UNCHANGED <<inPos, outText, map_obj>>
           ELSE /\ map_obj' = r.map
                /\ outText' = Append(outText, FormatLine(r.index))
                /\ inPos' = inPos + 1
                /\ UNCHANGED <<pc, err, printed>>
    /\ UNCHANGED <<encryptArgs, shuffles, map_index, fpPos, target, fnb>>
    /\ UNCHANGED decryptVars

\* Entry of the streaming encrypt branch: the warnings, map_index = 0.
StreamBegin ==
    /\ pc = "MapLoaded" /\ op = "encrypt" /\ ~inMemory
    /\ printed' = IF strict THEN Append(printed, WarnStrict) ELSE printed
    /\ map_index' = 0
    /\ pc' = "Processing"
    /\ UNCHANGED <<encryptArgs, inPos, outText, map_obj, shuffles, fpPos, err,
                   target, fnb>>
    /\ UNCHANGED decryptVars

\* One turn of the streaming encrypt loop.
StreamStep ==
    /\ pc = "Processing" /\ op = "encrypt" /\ ~inMemory
    /\ inPos < Len(plain)
    /\ LET byte == plain[inPos + 1]
           r == FindNextByte(Map, Stream(Map, fpPos), <<byte>>, map_index)
       IN  /\ target' = byte
           /\ fnb' = CallRecord(r)
           /\ fpPos' = r.fp.pos
           /\ IF r.raised
              THEN /\ pc' = "Failed"
                   /\ err' = "Gaps"
                   /\ UNCHANGED <<map_index, outText, inPos>>
              ELSE /\ map_index' = r.index
                   /\ outText' = Append(outText, FormatLine(r.index))
                   /\ inPos' = inPos + 1
                   /\ UNCHANGED <<pc, err>>
    /\ UNCHANGED <<encryptArgs, map_obj, shuffles, printed>>
    /\ UNCHANGED decryptVars

\* The encrypt loop ends at the end of the input; the files are closed.
EncryptClose ==
    /\ pc = "Processing" /\ op = "encrypt"
    /\ inPos = Len(plain)
    /\ pc' = "Done"
    /\ UNCHANGED <<encryptArgs, inPos, outText, map_obj, shuffles, map_index,
                   fpPos, printed, err, target, fnb>>
    /\ UNCHANGED decryptVars

\* A decrypt run is started on the output of the finished encrypt run.
DecryptOutput ==
    /\ pc = "Done" /\ op = "encrypt" /\ dpc = "Idle"
    /\ cipherIn' = outText
    /\ dInMemory' \in BOOLEAN
    /\ dpc' = "MapLoaded"
    /\ fpPos' = 0
    /\ UNCHANGED <<encryptArgs, inPos, outText, map_obj, shuffles, map_index,
                   printed, pc, err, dPos, outBytes, derr, target, fnb>>

encryptVars == <<encryptArgs, inPos, outText, map_obj, shuffles, map_index,
                 printed, pc, err, target, fnb>>

\* Entry of the decrypt branch; in memory, map_bytes = map_fp.read().
DecryptBegin ==
    /\ dpc = "MapLoaded"
    /\ dpc' = "Processing"
    /\ fpPos' = IF dInMemory THEN Len(Map) ELSE fpPos
    /\ UNCHANGED <<dInMemory, cipherIn, dPos, outBytes, derr>>
    /\ UNCHANGED encryptVars

\* One turn of the in-memory decrypt loop.
DecryptMemStep ==
    /\ dpc = "Processing" /\ dInMemory
    /\ dPos < Len(cipherIn)
    /\ LET index == ParseInt(cipherIn[dPos + 1])
       IN  outBytes' = outBytes \o SliceOne(Map, index)
    /\ dPos' = dPos + 1
    /\ UNCHANGED <<dInMemory, cipherIn, dpc, derr, fpPos>>
    /\ UNCHANGED encryptVars

\* One turn of the streaming decrypt loop.
DecryptStreamStep ==
    /\ dpc = "Processing" /\ ~dInMemory
    /\ dPos < Len(cipherIn)
    /\ LET r == SeekRead(Map, ParseInt(cipherIn[dPos + 1]))
       IN  IF r.raised
           THEN /\ dpc' = "Failed"
                /\ derr' = "OSError"
                /\ UNCHANGED <<dPos, outBytes, fpPos>>
           ELSE /\ outBytes' = outBytes \o r.data
                /\ fpPos' = r.pos
                /\ dPos' = dPos + 1
                /\ UNCHANGED <<dpc, derr>>
    /\ UNCHANGED <<dInMemory, cipherIn>>
    /\ UNCHANGED encryptVars

\* The decrypt loop ends at the end of the input; the files are closed.
DecryptClose ==
    /\ dpc = "Processing"
    /\ dPos = Len(cipherIn)
    /\ dpc' = "Done"
    /\ UNCHANGED <<dInMemory, cipherIn, dPos, outBytes, derr, fpPos>>
    /\ UNCHANGED encryptVars

Next ==
    \/ NewEncryptMap
    \/ EncodeStep
    \/ StreamBegin
    \/ StreamStep
    \/ EncryptClose
    \/ DecryptOutput
    \/ DecryptBegin
    \/ DecryptMemStep
    \/ DecryptStreamStep
    \/ DecryptClose

Spec == Init /\ [][Next]_vars

\* ------------------------------------- a single call of find_next_byte
\* The stream is positioned at index, as the function's contract supposes.
InitFind ==
    /\ Map \in SeqsUpTo(Byte, MaxMapLen)
    /\ op = "find"
    /\ target \in Byte
    /\ map_index \in 0 .. Len(Map)
    /\ fpPos = map_index
    /\ fnb = NoCall
    /\ strict = FALSE /\ inMemory = FALSE /\ plain = <<>> /\ inPos = 0
    /\ outText = <<>> /\ map_obj = EmptyMap /\ shuffles = 0 /\ printed = <<>>
    /\ pc = "Idle" /\ err = "none"
    /\ dInMemory = TRUE /\ cipherIn = <<>> /\ dPos = 0 /\ outBytes = <<>>
    /\ dpc = "Idle" /\ derr = "none"

FindCall ==
    /\ op = "find" /\ ~fnb.called
    /\ LET r == FindNextByte(Map, Stream(Map, fpPos), <<target>>, map_index)
       IN  /\ fnb' = CallRecord(r)
           /\ fpPos' = r.fp.pos
    /\ UNCHANGED <<Map, op, strict, inMemory, plain, inPos, outText, map_obj,
                   shuffles, map_index, printed, pc, err, target>>
    /\ UNCHANGED decryptVars

NextFind == FindCall

SpecFind == InitFind /\ [][NextFind]_vars

\* ================================================================ claims
\* Every byte value occurs in the map.
Complete == \A v \in Byte : Count(v, Map) >= 1

\* No byte value occurs more often in the plaintext than in the map.
Sufficient == \A v \in Byte : Count(v, plain) <= Count(v, Map)

\* The position written on line i of the ciphertext of the encrypt run.
Written(i) == ParseInt(outText[i])

\* The in-memory encrypt run has constructed its EncryptMap.
Indexed ==
    /\ op = "encrypt" /\ inMemory
    /\ pc \in {"Processing", "Done", "Failed"} /\ err # "Gaps"

\* C1: in in-memory strict mode, on a map holding every byte value and a
\* plaintext that asks for no byte value more often than the map holds it,
\* encoding never fails and writes one line per byte, and decoding those lines
\* in order by indexing the map gives back the plaintext, byte for byte.
C1_RoundTrip ==
    (op = "encrypt" /\ strict /\ inMemory /\ Complete /\ Sufficient) =>
        /\ pc # "Failed"
        /\ (pc = "Done" => Len(outText) = Len(plain))
        /\ (dInMemory /\ dpc \in {"Processing", "Done"} =>
                outBytes = SubSeq(plain, 1, dPos))
        /\ (dInMemory /\ dpc = "Done" => outBytes = plain)

C1_Witness ==
    /\ op = "encrypt" /\ strict /\ inMemory /\ Complete /\ Sufficient
    /\ dInMemory /\ dpc = "Done"
    /\ Len(plain) >= 3 /\ plain[1] # plain[2] /\ plain[1] = plain[3]
    /\ outBytes = plain
    /\ Written(1) > Written(3)

\* C2: in a streaming encrypt run every position written for a plaintext byte
\* is a position of the map that holds that byte.
C2_StreamPositions ==
    (op = "encrypt" /\ ~inMemory) =>
        \A i \in 1 .. Len(outText) :
            /\ Written(i) \in 0 .. (Len(Map) - 1)
            /\ Map[Written(i) + 1] = plain[i]

\* C3: a decrypt run never gets past a line whose position lies outside the
\* map: it fails there, with CorruptCipherText.
C3_OutOfRangeFails ==
    /\ (dpc \in {"Processing", "Done"} =>
            \A i \in 1 .. dPos : ParseInt(cipherIn[i]) \in 0 .. (Len(Map) - 1))
    /\ (dpc = "Failed" => derr = "CorruptCipherText")

\* C4: with strict set, the calls encode(v) succeed as long as fewer than n of
\* them were made, n the number of occurrences of v in the map, and the call
\* after the n-th fails with MapTooSmall, whatever other byte values were
\* encoded in between.
C4_StrictExhaustion ==
    (Indexed /\ strict) =>
        /\ \A v \in Byte : Count(v, SubSeq(plain, 1, inPos)) <= Count(v, Map)
        /\ (pc = "Failed" =>
                /\ err = "MapTooSmall"
                /\ inPos < Len(plain)
                /\ Count(plain[inPos + 1], SubSeq(plain, 1, inPos))
                       = Count(plain[inPos + 1], Map))
        /\ (pc = "Done" => inPos = Len(plain))

C4_Witness ==
    /\ Indexed /\ strict
    /\ pc = "Failed" /\ err = "MapTooSmall"
    /\ inPos = 2 /\ plain[1] = plain[3] /\ plain[1] # plain[2]
    /\ Count(plain[1], Map) = 1
    /\ Len(outText) = 2

\* C5: with strict set, the in-memory encrypt run never writes the same map
\* position twice, for the same byte value or for different ones.
C5_NoReuse ==
    (op = "encrypt" /\ strict /\ inMemory) =>
        \A i, j \in 1 .. Len(outText) : i # j => Written(i) # Written(j)

C5_Witness ==
    /\ op = "encrypt" /\ strict /\ inMemory /\ pc = "Done"
    /\ Len(outText) >= 3
    /\ plain[1] = plain[2] /\ plain[1] # plain[3]
    /\ Written(1) # Written(2) /\ Written(2) # Written(3)

\* C6: with strict unset, encode never fails on a verified map, the lists are
\* shuffled once only, and the k-th encode(v), k counted from 0, returns entry
\* k mod n of the shuffled list of v, n its length; so the call after the n-th
\* returns what the first call returned.
C6_NonStrictReuse ==
    (Indexed /\ ~strict) =>
        /\ pc # "Failed"
        /\ shuffles = 1
        /\ Len(outText) = inPos
        /\ \A i \in 1 .. inPos :
              LET v == plain[i]
                  k == Count(v, SubSeq(plain, 1, i - 1))
                  n == Len(map_obj[v].list)
              IN  /\ n = Count(v, Map)
                  /\ Written(i) = map_obj[v].list[(k % n) + 1]

C6_Witness ==
    /\ Indexed /\ ~strict /\ pc = "Done"
    /\ Len(plain) >= 3
    /\ plain[1] = plain[2] /\ plain[2] = plain[3]
    /\ Count(plain[1], Map) = 2
    /\ Written(3) = Written(1) /\ Written(2) # Written(1)
    /\ Written(1) > Written(2)

\* The positions at or after index, and those before it, that hold target.
AtOrAfter == {p \in map_index .. (Len(Map) - 1) : Map[p + 1] = target}
Before == {p \in 0 .. (map_index - 1) : Map[p + 1] = target}

Least(S) == CHOOSE p \in S : \A q \in S : p <= q

\* What a call of find_next_byte on a stream positioned at index returns.
FindResult ==
    /\ AtOrAfter # {} => ~fnb.raised /\ fnb.index = Least(AtOrAfter)
    /\ (AtOrAfter = {} /\ Before # {}) => ~fnb.raised /\ fnb.index = Least(Before)
    /\ (AtOrAfter = {} /\ Before = {}) => fnb.raised

\* C7 (as amended): called on a stream positioned at index, find_next_byte
\* returns the first position at or after index that holds the target, else
\* the first one before index, and fails with Gaps when no position holds it.
\* It reads every position of the map once at most, except position index,
\* which it reads twice when the target is nowhere in the map; and it reads
\* the end of the stream once at most, except twice when index is the length
\* of the map and the target is nowhere in the map.
C7_FindNextContract ==
    (op = "find" /\ fnb.called) =>
        /\ FindResult
        /\ \A p \in 0 .. (Len(Map) - 1) :
              fnb.reads[p + 1] <= (IF fnb.raised /\ p = map_index THEN 2 ELSE 1)
        /\ fnb.eofs <= (IF fnb.raised /\ map_index = Len(Map) THEN 2 ELSE 1)

C7_Witness ==
    /\ op = "find" /\ fnb.called
    /\ Len(Map) = 3 /\ Map[1] = Map[3] /\ Map[1] # Map[2]
    /\ target = Map[2] /\ map_index = 2
    /\ ~fnb.raised /\ fnb.index = 1
    /\ fnb.reads = <<1, 1, 1>> /\ fnb.eofs = 1

\* C7 (as stated): the same result, after reading every position of the map
\* once at most.
C7_ReadsOnce ==
    (op = "find" /\ fnb.called) =>
        /\ FindResult
        /\ \A p \in 0 .. (Len(Map) - 1) : fnb.reads[p + 1] <= 1

\* C8: constructing the EncryptMap fails with Gaps exactly when some byte
\* value does not occur in the map (the empty map included), and then the
\* shuffle has not run, no index exists and nothing was encoded.
C8_GapsIffIncomplete ==
    (op = "encrypt" /\ inMemory /\ pc # "MapLoaded") =>
        /\ (err = "Gaps") <=> ~Complete
        /\ (err = "Gaps" =>
                /\ pc = "Failed"
                /\ shuffles = 0
                /\ map_obj = EmptyMap
                /\ inPos = 0 /\ outText = <<>>)
        /\ (err # "Gaps" => shuffles = 1 /\ DOMAIN map_obj = Byte)

C8_Witness ==
    /\ op = "encrypt" /\ inMemory /\ pc = "Failed" /\ err = "Gaps"
    /\ Len(Map) >= 2 /\ Len(plain) >= 1
    /\ shuffles = 0

\* C9: an in-memory strict encrypt run that fails with MapTooSmall leaves no
\* ciphertext line in its output.
C9_AbortDiscardsOutput ==
    (op = "encrypt" /\ inMemory /\ strict /\ pc = "Failed" /\ err = "MapTooSmall")
        => outText = <<>>

\* C10: a non-strict in-memory encrypt run that has written a position twice
\* has printed a warning.
C10_ReuseWarned ==
    (op = "encrypt" /\ inMemory /\ ~strict
        /\ \E i, j \in 1 .. Len(outText) : i # j /\ Written(i) = Written(j))
        => printed # <<>>

\* The positions of the map that hold the byte value v.
PositionsOf(v) == {p \in 0 .. (Len(Map) - 1) : Map[p + 1] = v}

\* The sequence s without its i-th entry.
Without(s, i) == SubSeq(s, 1, i - 1) \o SubSeq(s, i + 1, Len(s))

\* The entries of s in ascending order, repeats kept.
RECURSIVE Sorted(_)
Sorted(s) ==
    IF Len(s) = 0 THEN <<>>
    ELSE LET i == CHOOSE j \in 1 .. Len(s) : \A k \in 1 .. Len(s) : s[j] <= s[k]
         IN  <<s[i]>> \o Sorted(Without(s, i))

\* The positions of v in ascending order, the order in which a scan of the
\* map from position 0 meets them.
RECURSIVE ScanOrder(_, _)
ScanOrder(v, p) ==
    IF p >= Len(Map) THEN <<>>
    ELSE (IF Map[p + 1] = v THEN <<p>> ELSE <<>>) \o ScanOrder(v, p + 1)

\* C11: once EncryptMap is constructed on a map that passes verification, the
\* list of every byte value v holds exactly the positions of the map that hold
\* v, each once (sorted, it is the scan-order list of v), and encoding never
\* changes a list; before the first encode every cursor is 0.
C11_IndexContent ==
    Indexed =>
        /\ DOMAIN map_obj = Byte
        /\ \A v \in Byte :
              /\ Len(map_obj[v].list) = Cardinality(PositionsOf(v))
              /\ {map_obj[v].list[i] : i \in 1 .. Len(map_obj[v].list)} = PositionsOf(v)
              /\ Sorted(map_obj[v].list) = ScanOrder(v, 0)
              /\ (inPos = 0 => map_obj[v].index = 0)

C11_Witness ==
    /\ Indexed /\ pc = "Processing" /\ inPos = 0 /\ Len(plain) >= 1
    /\ \E v \in Byte :
          /\ Len(map_obj[v].list) = 2
          /\ map_obj[v].list[1] > map_obj[v].list[2]
          /\ map_obj[v].index = 0

====
